---- MODULE Spec2Model ----
(***************************************************************************)
(* Model of menpo/math/decomposition.py: eigenvalue_decomposition, pca and *)
(* ipca.                                                                   *)
(*                                                                         *)
(* Numbers.  The program computes in floating point; the model computes    *)
(* exactly.  A real number is a rational <<p, q>> in lowest terms with     *)
(* q > 0; IEEE's non-finite results of a division by zero are kept as      *)
(* <<1, 0>> (inf), <<-1, 0>> (-inf) and <<0, 0>> (nan), and every          *)
(* comparison with nan is false, as in numpy.  A real vector is an integer *)
(* vector times the square root of a rational (a record [dir, s2]), which  *)
(* is closed under what the program does to the rows of its matrices.      *)
(*                                                                         *)
(* Library calls.  numpy.linalg.eigh, qr and svd are modelled by their     *)
(* exact mathematical result on the inputs the model draws: symmetric      *)
(* matrices that are diagonal or 2 x 2 with a rational spectrum (eigh),    *)
(* and, in ipca, one-dimensional data (qr, svd).  On a non-finite input a  *)
(* LAPACK routine either fails (LinAlgError) or returns nan; the model     *)
(* takes both outcomes (the parameter lib).                                *)
(***************************************************************************)
EXTENDS Integers, Sequences, FiniteSets, TLC

VARIABLES C, eigArgs, eigRet,
          X, pcaArgs, pcaRet,
          model, data, exact, ipcaArgs, ipcaRet

vars == <<C, eigArgs, eigRet, X, pcaArgs, pcaRet,
          model, data, exact, ipcaArgs, ipcaRet>>

eigVars == <<C, eigArgs, eigRet>>
pcaVars == <<X, pcaArgs, pcaRet>>
ipcaVars == <<model, data, exact, ipcaArgs, ipcaRet>>

(***************************************************************************)
(* Bounds of the model.                                                    *)
(***************************************************************************)
\* the entries of a data matrix given to pca are 0..MaxVal
MaxVal == 1
\* the first data matrix of a fitted model has 1..MaxFirst samples
MaxFirst == 2
\* a new batch given to ipca has 0..MaxBatch samples
MaxBatch == 2

(***************************************************************************)
(* Exact arithmetic.                                                       *)
(***************************************************************************)
Abs(a) == IF a < 0 THEN -a ELSE a

Sgn(a) == IF a > 0 THEN 1 ELSE IF a < 0 THEN -1 ELSE 0

RECURSIVE Gcd(_, _)
Gcd(a, b) == IF b = 0 THEN a ELSE Gcd(b, a % b)

\* the rational p / q; a zero denominator gives IEEE's inf, -inf or nan
Rat(p, q) ==
    IF q = 0 THEN <<Sgn(p), 0>>
    ELSE LET g == Gcd(Abs(p), Abs(q))
         IN  <<(Sgn(q) * p) \div g, Abs(q) \div g>>

Zero == <<0, 1>>
One == <<1, 1>>
NaN == <<0, 0>>
Inf == <<1, 0>>

IsFinite(x) == x[2] # 0

RMul(x, y) == Rat(x[1] * y[1], x[2] * y[2])

RNeg(x) == <<-x[1], x[2]>>

\* inf + inf = inf, inf - inf = nan
RAdd(x, y) ==
    IF x[2] = 0 /\ y[2] = 0 THEN (IF x = y THEN x ELSE NaN)
    ELSE Rat(x[1] * y[2] + y[1] * x[2], x[2] * y[2])

RSub(x, y) == RAdd(x, RNeg(y))

RDiv(x, y) == Rat(x[1] * y[2], x[2] * y[1])

RAbs(x) == <<Abs(x[1]), x[2]>>

\* x > y as numpy compares floats: false as soon as one side is nan
RGt(x, y) ==
    IF x = NaN \/ y = NaN THEN FALSE
    ELSE IF IsFinite(x) /\ IsFinite(y) THEN x[1] * y[2] > y[1] * x[2]
    ELSE IF ~IsFinite(x) /\ ~IsFinite(y) THEN x[1] > y[1]
    ELSE IF ~IsFinite(x) THEN x[1] > 0
    ELSE y[1] < 0

RMax(x, y) == IF x = NaN \/ y = NaN THEN NaN ELSE IF RGt(y, x) THEN y ELSE x

\* np.max: nan if any entry is nan (s is not empty)
RECURSIVE MaxOf(_)
MaxOf(s) == IF Len(s) = 1 THEN s[1] ELSE RMax(s[1], MaxOf(Tail(s)))

RECURSIVE SumInts(_)
SumInts(s) == IF s = <<>> THEN 0 ELSE s[1] + SumInts(Tail(s))

RECURSIVE SumRats(_)
SumRats(s) == IF s = <<>> THEN Zero ELSE RAdd(s[1], SumRats(Tail(s)))

Dot(u, v) == SumInts([k \in 1..Len(u) |-> u[k] * v[k]])

\* boolean-mask indexing a[mask]: the entries whose mask is TRUE, in order
RECURSIVE Mask(_, _)
Mask(s, mask) ==
    IF s = <<>> THEN <<>>
    ELSE (IF mask[1] THEN <<s[1]>> ELSE <<>>) \o Mask(Tail(s), Tail(mask))

Reverse(s) == [i \in 1..Len(s) |-> s[Len(s) + 1 - i]]

\* np.argsort on a short array (insertion sort: ascending, ties in index order).
\* nan sorts last.
Before(x, y) == IF x = NaN THEN FALSE ELSE IF y = NaN THEN TRUE ELSE RGt(y, x)

Argsort(s) ==
    LET N == Len(s)
        rank(i) == Cardinality({j \in 1..N : Before(s[j], s[i])
                                   \/ (~Before(s[i], s[j]) /\ j < i)}) + 1
    IN  [r \in 1..N |-> CHOOSE i \in 1..N : rank(i) = r]

(***************************************************************************)
(* numpy.linalg.eigh on a symmetric matrix [a, den] (the integer matrix a  *)
(* divided by den): the eigenvalues in ascending order and, column by      *)
(* column, a direction of each unit eigenvector.                           *)
(***************************************************************************)
UnitVec(i, N) == [k \in 1..N |-> IF k = i THEN 1 ELSE 0]

IsDiagonal(a) == \A i, j \in 1..Len(a) : i # j => a[i][j] = 0

Disc(a) == (a[1][1] - a[2][2]) * (a[1][1] - a[2][2]) + 4 * a[1][2] * a[1][2]

\* the integer square root of Disc(a), which lies between the larger of
\* |a11 - a22| and 2 |a12| and their sum
IsqrtDisc(a) ==
    LET u == Abs(a[1][1] - a[2][2])
        v == 2 * Abs(a[1][2])
        disc == Disc(a)
    IN  CHOOSE r \in (IF u > v THEN u ELSE v)..(u + v) :
            r * r <= disc /\ (r + 1) * (r + 1) > disc

\* the matrices whose eigen-decomposition the model computes exactly
ExactSpectrum(a) ==
    \/ IsDiagonal(a)
    \/ Len(a) = 2 /\ LET r == IsqrtDisc(a) IN r * r = Disc(a)

Primitive(v) ==
    LET RECURSIVE G(_)
        G(s) == IF s = <<>> THEN 0 ELSE Gcd(Abs(s[1]), G(Tail(s)))
        g == G(v)
    IN  IF g = 0 THEN v ELSE [k \in 1..Len(v) |-> v[k] \div g]

\* eigh of a diagonal matrix: the diagonal in ascending order (p = its argsort)
EighDiagonal(a, den, p) ==
    [w |-> [i \in 1..Len(a) |-> Rat(a[p[i]][p[i]], den)],
     v |-> [i \in 1..Len(a) |-> UnitVec(p[i], Len(a))]]

\* eigh of a 2 x 2 matrix whose discriminant is the square of r
EighTwo(a, den, r) ==
    [w |-> <<Rat((a[1][1] + a[2][2] - r) \div 2, den),
             Rat((a[1][1] + a[2][2] + r) \div 2, den)>>,
     v |-> <<Primitive(<<2 * a[1][2], a[2][2] - a[1][1] - r>>),
             Primitive(<<2 * a[1][2], a[2][2] - a[1][1] + r>>)>>]

Eigh(M) ==
    IF M.den = 0
    THEN [w |-> [i \in 1..Len(M.a) |-> NaN],
          v |-> [i \in 1..Len(M.a) |-> UnitVec(i, Len(M.a))]]
    ELSE IF IsDiagonal(M.a)
    THEN EighDiagonal(M.a, M.den, Argsort([i \in 1..Len(M.a) |-> Rat(M.a[i][i], M.den)]))
    ELSE EighTwo(M.a, M.den, IsqrtDisc(M.a))

(***************************************************************************)
(* eigenvalue_decomposition(C, eps).  lib is the outcome of LAPACK on a    *)
(* non-finite matrix: "raise" or "return" (nan eigenvalues).  An eigen-    *)
(* decomposition is the record [w, v]: eigenvalues and eigenvector columns.*)
(***************************************************************************)
EigErr == [status |-> "error", N |-> 0, vecs |-> <<>>, vals |-> <<>>]

\* eigenvalues = eigenvalues[index]; eigenvectors = eigenvectors[:, index]
Take(e, index) ==
    [w |-> [i \in 1..Len(index) |-> e.w[index[i]]],
     v |-> [i \in 1..Len(index) |-> e.v[index[i]]]]

\* a faulty variant of SortDescending that forgets the reversal [::-1]
SortAscending(e) == Take(e, Argsort(e.w))

\* index = np.argsort(eigenvalues)[::-1]
SortDescending(e) == Take(e, Reverse(Argsort(e.w)))

\* limit = np.max(np.abs(eigenvalues)) * eps
Limit(w, eps) == RMul(MaxOf([i \in 1..Len(w) |-> RAbs(w[i])]), eps)

\* eigenvalues[mask], eigenvectors[:, mask]
Select(e, mask) == [w |-> Mask(e.w, mask), v |-> Mask(e.v, mask)]

\* a faulty variant of SelectPositive that tests eigenvalues >= 0.0
SelectNonNegative(e) ==
    Select(e, [i \in 1..Len(e.w) |-> RGt(e.w[i], Zero) \/ e.w[i] = Zero])

\* pos_index = eigenvalues > 0.0
SelectPositive(e) == Select(e, [i \in 1..Len(e.w) |-> RGt(e.w[i], Zero)])

\* a faulty variant of SelectAbove that tests pos_eigenvalues >= limit
SelectAtLeast(e, limit) ==
    Select(e, [i \in 1..Len(e.w) |-> RGt(e.w[i], limit) \/ e.w[i] = limit])

\* index = pos_eigenvalues > limit
SelectAbove(e, limit) == Select(e, [i \in 1..Len(e.w) |-> RGt(e.w[i], limit)])

\* the two filters applied to the sorted decomposition e
Filtered(e, eps) == SelectAbove(SelectPositive(e), Limit(e.w, eps))

EigOk(N, e) == [status |-> "ok", N |-> N, vecs |-> e.v, vals |-> e.w]

EigenvalueDecomposition(M, eps, lib) ==
    IF Len(M.a) = 0 THEN EigErr     \* np.max of an empty array raises
    ELSE IF M.den = 0 /\ lib = "raise" THEN EigErr
    ELSE EigOk(Len(M.a), Filtered(SortDescending(Eigh(M)), eps))

(***************************************************************************)
(* The callers' inputs.                                                    *)
(***************************************************************************)
\* tolerances: none, a small one (as the default 1e-10), and one so large
\* that no eigenvalue exceeds the limit
EpsSet == {Zero, Rat(1, 1000), One}

\* eigenvalue_decomposition is also given a negative and a middling tolerance
EigEpsSet == EpsSet \cup {Rat(-1, 2), Rat(1, 2)}

EigEntries == -2..2

\* symmetric matrices: empty, 1 x 1, 2 x 2 with a rational spectrum, and
\* diagonal 3 x 3
SymMatrices ==
    {<<>>}
    \cup {<<<<a>>>> : a \in EigEntries}
    \cup {m \in {<<<<a, b>>, <<b, c>>>> : a, b, c \in EigEntries} : ExactSpectrum(m)}
    \cup {<<<<a, 0, 0>>, <<0, b, 0>>, <<0, 0, c>>>> : a, b, c \in EigEntries}

NoEig == [status |-> "none", N |-> 0, vecs |-> <<>>, vals |-> <<>>]
NoEigArgs == [eps |-> Zero]

(***************************************************************************)
(* Specification of eigenvalue_decomposition applied to the matrix C.      *)
(***************************************************************************)
CallEig(eps) ==
    /\ eigRet' = EigenvalueDecomposition([a |-> C, den |-> 1], eps, "return")
    /\ eigArgs' = [eps |-> eps]
    /\ UNCHANGED <<C, pcaVars, ipcaVars>>

NextEig == \E eps \in EigEpsSet : CallEig(eps)

(***************************************************************************)
(* Arrays.  A 2-D array is [d, rows]: d columns and a sequence of rows,    *)
(* each row the real vector dir * sqrt(s2).                                *)
(***************************************************************************)
SVec(dir, s2) == [dir |-> dir, s2 |-> s2]

IntRow(r) == SVec(r, One)

\* an array of no row
EmptyArr == [d |-> 1, rows |-> <<>>]

\* the caller holds no array, and one that holds none calls nothing
NoArr == [d |-> 0, rows |-> <<>>]
Held(A) == A # NoArr

\* the array still holds the integer data it was loaded with
Pristine(A) == \A i \in 1..Len(A.rows) : A.rows[i].s2 = One

IntRows(A) == [i \in 1..Len(A.rows) |-> A.rows[i].dir]

\* np.dot(a, b) for the rows a and an array b whose rows share one s2
NpDot(a, b) ==
    [i \in 1..Len(a) |->
        SVec([k \in 1..b.d |->
                 SumInts([t \in 1..Len(b.rows) |-> a[i].dir[t] * b.rows[t].dir[k]])],
             RMul(a[i].s2, b.rows[1].s2))]

\* linalg.dot_inplace_right(a, b): the product a.b written over the first
\* rows of b, block of columns by block of columns; returns that view of b
DotInplaceRight(a, b) ==
    LET out == NpDot(a, b)
    IN  [out |-> out,
         buf |-> [d |-> b.d,
                  rows |-> out \o SubSeq(b.rows, Len(out) + 1, Len(b.rows))]]

\* v *= w for a row v and the square w2 of the scalar w
Scale(v, w2) == SVec(v.dir, RMul(v.s2, w2))

(***************************************************************************)
(* pca(X, centre, inplace, eps).                                           *)
(***************************************************************************)
ColSum(R, d) == [k \in 1..d |-> SumInts([i \in 1..Len(R) |-> R[i][k]])]

\* m = np.mean(X, axis=0) if centre else np.zeros(d)
PcaMean(A, centre) ==
    IF centre
    THEN LET cs == ColSum(IntRows(A), A.d)
         IN  [k \in 1..A.d |-> Rat(cs[k], Len(A.rows))]
    ELSE [k \in 1..A.d |-> Zero]

\* a faulty variant of CentredY that never subtracts the mean
CentredYUncentred(A, centre) == IntRows(A)

\* X - m, as the integer matrix Y over the denominator q
CentredY(A, centre) ==
    LET R == IntRows(A)
        n == Len(R)
        cs == ColSum(R, A.d)
    IN  IF centre
        THEN [i \in 1..n |-> [k \in 1..A.d |-> n * R[i][k] - cs[k]]]
        ELSE R

CentredQ(A, centre) == IF centre THEN Len(A.rows) ELSE 1

Centred(A, centre) ==
    LET Y == CentredY(A, centre)
        q == CentredQ(A, centre)
        s2 == Rat(1, q * q)
    IN  [d |-> A.d, rows |-> [i \in 1..Len(A.rows) |-> SVec(Y[i], s2)]]

\* the regime: d < n takes the covariance, otherwise the Gram matrix
Primal(A) == A.d < Len(A.rows)

\* C = np.dot(X.T, X) / (n - 1), or np.dot(X, X.T) / (n - 1)
Covariance(A, centre) ==
    LET Y == CentredY(A, centre)
        n == Len(Y)
        q == CentredQ(A, centre)
    IN  [a |-> IF Primal(A)
               THEN [j \in 1..A.d |-> [k \in 1..A.d |->
                        SumInts([i \in 1..n |-> Y[i][j] * Y[i][k]])]]
               ELSE [i \in 1..n |-> [j \in 1..n |-> Dot(Y[i], Y[j])]],
         den |-> q * q * (n - 1)]

\* C = (C + C.T) / 2.0
Symmetrise(M) ==
    [a |-> [i \in 1..Len(M.a) |-> [j \in 1..Len(M.a) |-> M.a[i][j] + M.a[j][i]]],
     den |-> 2 * M.den]

\* the eigenvector columns of eigh as unit rows (V.T)
UnitRows(vecs) == [i \in 1..Len(vecs) |-> SVec(vecs[i], Rat(1, Dot(vecs[i], vecs[i])))]

\* w = np.sqrt(1.0 / ((n - 1) * l)), squared
Weights(n, l) == [i \in 1..Len(l) |-> RDiv(One, RMul(Rat(n - 1, 1), l[i]))]

\* U *= w[:, None] on the view U = buf[:p] of the array buf
ScaleView(buf, w2) ==
    [d |-> buf.d,
     rows |-> [i \in 1..Len(buf.rows) |->
                  IF i <= Len(w2) THEN Scale(buf.rows[i], w2[i]) ELSE buf.rows[i]]]

PcaErr == [status |-> "error", U |-> <<>>, shape |-> <<0, 0>>, l |-> <<>>, m |-> <<>>]

PcaOk(U, shape, l, m) == [status |-> "ok", U |-> U, shape |-> shape, l |-> l, m |-> m]

\* d >= n: U = dot(V.T, X); U *= w[:, None]; return U, l, m.  Xc is the
\* array X names when the product is taken
PcaDual(A, inplace, m, Xc, l, Vt, w2) ==
    IF inplace
    THEN [ret |-> PcaOk(SubSeq(ScaleView(DotInplaceRight(Vt, Xc).buf, w2).rows, 1, Len(l)),
                        <<Len(l), A.d>>, l, m),
          X |-> ScaleView(DotInplaceRight(Vt, Xc).buf, w2)]
    ELSE [ret |-> PcaOk(ScaleView([d |-> A.d, rows |-> NpDot(Vt, Xc)], w2).rows,
                        <<Len(l), A.d>>, l, m),
          X |-> A]

\* a faulty variant of PcaWith whose d < n branch subtracts the mean from
\* the caller's array whatever inplace is
PcaWithAliased(A, inplace, m, Xc, ed) ==
    IF ed.status = "error" THEN [ret |-> PcaErr, X |-> Xc]
    ELSE IF Primal(A)
    THEN [ret |-> PcaOk(UnitRows(ed.vecs), <<Len(ed.vals), ed.N>>, ed.vals, m),
          X |-> Xc]
    ELSE PcaDual(A, inplace, m, Xc, ed.vals, UnitRows(ed.vecs),
                 Weights(Len(A.rows), ed.vals))

\* the steps after eigenvalue_decomposition returned ed
PcaWith(A, inplace, m, Xc, ed) ==
    IF ed.status = "error" THEN [ret |-> PcaErr, X |-> IF inplace THEN Xc ELSE A]
    ELSE IF Primal(A)
    THEN [ret |-> PcaOk(UnitRows(ed.vecs), <<Len(ed.vals), ed.N>>, ed.vals, m),
          X |-> IF inplace THEN Xc ELSE A]
    ELSE PcaDual(A, inplace, m, Xc, ed.vals, UnitRows(ed.vecs),
                 Weights(Len(A.rows), ed.vals))

\* pca: [ret |-> what is returned, X |-> the caller's array afterwards]
Pca(A, centre, inplace, eps, lib) ==
    PcaWith(A, inplace, PcaMean(A, centre), Centred(A, centre),
            EigenvalueDecomposition(Symmetrise(Covariance(A, centre)), eps, lib))

(***************************************************************************)
(* Specification of pca applied to the caller's array X.                   *)
(***************************************************************************)
PcaVals == 0..MaxVal

\* (n_samples, n_dims) of the data matrices
PcaShapes == {<<0, 1>>, <<1, 1>>, <<1, 2>>, <<2, 1>>, <<3, 1>>, <<2, 2>>, <<3, 2>>, <<2, 3>>}

DataMatrices ==
    UNION {{[d |-> sh[2], rows |-> [i \in 1..sh[1] |-> IntRow(R[i])]] :
               R \in [1..sh[1] -> [1..sh[2] -> PcaVals]]} : sh \in PcaShapes}

NoPca == [status |-> "none", U |-> <<>>, shape |-> <<0, 0>>, l |-> <<>>, m |-> <<>>]
NoPcaArgs == [centre |-> FALSE, inplace |-> FALSE, eps |-> Zero, lib |-> "return",
              X0 |-> EmptyArr]

\* the covariance of the call is one the model decomposes exactly
PcaExact(A, centre) == ExactSpectrum(Covariance(A, centre).a)

\* the call returns (or raises) and leaves the caller's array as r.X
PcaReturns(r) == X' = r.X /\ pcaRet' = r.ret

CallPca(centre, inplace, eps, lib) ==
    /\ Held(X)
    /\ lib = "raise" => Len(X.rows) = 1
    /\ Pristine(X)
    /\ PcaExact(X, centre)
    /\ PcaReturns(Pca(X, centre, inplace, eps, lib))
    /\ pcaArgs' = [centre |-> centre, inplace |-> inplace, eps |-> eps, lib |-> lib,
                   X0 |-> X]
    /\ UNCHANGED <<eigVars, ipcaVars>>

NextPca ==
    \E centre, inplace \in BOOLEAN, eps \in EpsSet, lib \in {"return", "raise"} :
        CallPca(centre, inplace, eps, lib)

(***************************************************************************)
(* ipca(B, U_a, l_a, n_a, m_a, f, eps) on one-dimensional data (d = 1),    *)
(* where qr and svd have the closed forms below.  A prior model is the     *)
(* record [U, shape, l, m] that pca or ipca returned; m_a is the record    *)
(* [present, v] (None is [present |-> FALSE]).  A scalar c * sqrt(s2) is   *)
(* the record [c, s2].  Beside U, l and m the result of Ipca records what  *)
(* the call went through: whether it centred (active), the matrix it       *)
(* worked on (W) and the mask l > eps (keep).                              *)
(***************************************************************************)
Scalar(c, s2) == [c |-> c, s2 |-> s2]

\* the square of a scalar
Sq(e) == RMul(Rat(e.c * e.c, 1), e.s2)

None == [present |-> FALSE, v |-> <<>>]

Some(v) == [present |-> TRUE, v |-> v]

\* a faulty variant of CentringActive that only tests m_a is not None
CentringIfPresent(m_a) == m_a.present

\* m_a is not None and not np.all(m_a == 0)
CentringActive(m_a) == m_a.present /\ ~(\A k \in 1..Len(m_a.v) : m_a.v[k] = Zero)

\* n_a *= f
EffectiveNa(n_a, f) == RMul(Rat(n_a, 1), f)

\* n = n_a + n_b
TotalN(B, n_a, f) == RAdd(EffectiveNa(n_a, f), Rat(Len(B.rows), 1))

\* m = (n_a / n) * m_a + (n_b / n) * m_b, or np.zeros(d)
IpcaMean(B, n_a, m_a, f) ==
    IF CentringActive(m_a)
    THEN LET n == TotalN(B, n_a, f)
             m_b == PcaMean(B, TRUE)
         IN  [k \in 1..B.d |->
                 RAdd(RMul(RDiv(EffectiveNa(n_a, f), n), m_a.v[k]),
                      RMul(RDiv(Rat(Len(B.rows), 1), n), m_b[k]))]
    ELSE [k \in 1..B.d |-> Zero]

\* the row np.sqrt((n_a * n_b) / n) * (m_b - m_a)
CorrectionRow(B, n_a, m_a, f) ==
    LET m_b == PcaMean(B, TRUE)
        delta == [k \in 1..B.d |-> RSub(m_b[k], m_a.v[k])]
        RECURSIVE Prod(_)
        Prod(t) == IF t = <<>> THEN 1 ELSE t[1][2] * Prod(Tail(t))
        D == Prod(delta)
        coef == RDiv(RMul(EffectiveNa(n_a, f), Rat(Len(B.rows), 1)), TotalN(B, n_a, f))
    IN  SVec([k \in 1..B.d |-> IF D = 0 THEN 0 ELSE delta[k][1] * (D \div delta[k][2])],
             RDiv(coef, Rat(D * D, 1)))

\* the matrix the update works on: B, or B - m_b with the correction row
WorkingB(B, n_a, m_a, f) ==
    IF CentringActive(m_a)
    THEN [d |-> B.d,
          rows |-> Append(Centred(B, TRUE).rows, CorrectionRow(B, n_a, m_a, f))]
    ELSE B

\* PB = B - B.dot(U_a.T).dot(U_a), for unit rows of U_a with integer entries
ProjectOut(W, U_a) ==
    [r \in 1..Len(W.rows) |->
        SVec([k \in 1..W.d |->
                 W.rows[r].dir[k]
                 - SumInts([i \in 1..Len(U_a) |->
                               Dot(W.rows[r].dir, U_a[i].dir) * U_a[i].dir[k]])],
             W.rows[r].s2)]

\* B_tilde = np.linalg.qr(PB.T)[0].T for d = 1: Q is the 1 x 1 identity (a
\* Householder reflector of order 1), and has no column when PB has no row
QrRows(PB) == IF Len(PB) = 0 THEN <<>> ELSE <<SVec(<<1>>, One)>>

\* R = [[f * S_a, 0], [B.dot(U_a.T), PB.dot(B_tilde.T)]], column by column
RMatrix(W, U_a, sa2, f, PB, B_tilde) ==
    LET p == Len(U_a)
        k == Len(W.rows)
    IN  [j \in 1..(p + Len(B_tilde)) |->
            [i \in 1..(p + k) |->
                IF j <= p /\ i <= p
                THEN IF i = j THEN Scalar(1, RMul(RMul(f, f), sa2[i])) ELSE Scalar(0, One)
                ELSE IF j <= p
                THEN Scalar(Dot(W.rows[i - p].dir, U_a[j].dir),
                            RMul(W.rows[i - p].s2, U_a[j].s2))
                ELSE IF i <= p THEN Scalar(0, One)
                ELSE Scalar(Dot(PB[i - p].dir, B_tilde[j - p].dir),
                            RMul(PB[i - p].s2, B_tilde[j - p].s2))]]

AllFinite(R) == \A j \in 1..Len(R) : \A i \in 1..Len(R[j]) : IsFinite(R[j][i].s2)

\* np.linalg.svd of a matrix with mutually orthogonal columns (for d = 1 at
\* most one column of R is not zero): the squared singular values are the
\* squared column norms in descending order, and row i of Vt is the unit
\* vector of the column in place i
ColNorms2(R) == [j \in 1..Len(R) |-> SumRats([i \in 1..Len(R[j]) |-> Sq(R[j][i])])]

\* min(rows, columns) singular values, in the order of the columns
SvdOrdered(norm2, order, nrows) ==
    [s2 |-> [i \in 1..(IF nrows < Len(norm2) THEN nrows ELSE Len(norm2)) |->
                norm2[order[i]]],
     order |-> order]

\* a faulty variant of Svd that returns the singular values in ascending
\* order
SvdAscending(R) ==
    SvdOrdered(ColNorms2(R), Argsort(ColNorms2(R)),
               IF Len(R) = 0 THEN 0 ELSE Len(R[1]))

Svd(R) ==
    SvdOrdered(ColNorms2(R), Argsort([j \in 1..Len(R) |-> RNeg(ColNorms2(R)[j])]),
               IF Len(R) = 0 THEN 0 ELSE Len(R[1]))

IpcaErr == [status |-> "error", U |-> <<>>, shape |-> <<0, 0>>, l |-> <<>>, m |-> <<>>,
            active |-> FALSE, W |-> EmptyArr, keep |-> <<>>]

\* s_a = np.sqrt((n_a - 1) * l_a), squared
SaSquared(l_a, n_a) == [i \in 1..Len(l_a) |-> RMul(Rat(n_a - 1, 1), l_a[i])]

\* the intermediate matrices of the update: W (the working B), PB, B_tilde, R
WorkQ(W, U_a, sa2, f, PB, B_tilde) ==
    [W |-> W, PB |-> PB, B_tilde |-> B_tilde,
     R |-> RMatrix(W, U_a, sa2, f, PB, B_tilde)]

WorkPB(W, U_a, sa2, f, PB) == WorkQ(W, U_a, sa2, f, PB, QrRows(PB))

Work(B, prior, n_a, m_a, f) ==
    WorkPB(WorkingB(B, n_a, m_a, f), prior.U, SaSquared(prior.l, n_a), f,
           ProjectOut(WorkingB(B, n_a, m_a, f), prior.U))

\* l = s_tilde ** 2 / (n - 1); svd of a non-finite matrix returns nan
NewEigenvalues(R, s2, n) ==
    IF AllFinite(R)
    THEN [i \in 1..Len(s2) |-> RDiv(s2[i], RSub(n, One))]
    ELSE [i \in 1..Len(s2) |-> NaN]

\* l = l[l > eps]; U = Vt_tilde.dot(np.vstack((U_a, B_tilde)))[:len(l), :]
IpcaKeep(stack, order, l, keep, m, d, active, W) ==
    [status |-> "ok",
     U |-> [i \in 1..Len(Mask(l, keep)) |-> stack[order[i]]],
     shape |-> <<Len(Mask(l, keep)), d>>,
     l |-> Mask(l, keep), m |-> m,
     active |-> active, W |-> W, keep |-> keep]

IpcaFilter(stack, order, l, eps, m, d, active, W) ==
    IpcaKeep(stack, order, l, [i \in 1..Len(l) |-> RGt(l[i], eps)], m, d, active, W)

IpcaSvd(U_a, wk, sv, n, eps, m, d, active) ==
    IpcaFilter(U_a \o wk.B_tilde, sv.order, NewEigenvalues(wk.R, sv.s2, n), eps,
               m, d, active, wk.W)

IpcaWork(U_a, wk, n, eps, m, d, active) ==
    IpcaSvd(U_a, wk, Svd(wk.R), n, eps, m, d, active)

Ipca(B, prior, n_a, m_a, f, eps, lib) ==
    IF B.d # prior.shape[2] THEN IpcaErr      \* B.dot(U_a.T) raises
    ELSE IF lib = "raise" THEN IpcaErr        \* qr or svd raises
    ELSE IpcaWork(prior.U, Work(B, prior, n_a, m_a, f), TotalN(B, n_a, f), eps,
                  IpcaMean(B, n_a, m_a, f), B.d, CentringActive(m_a))

\* LAPACK may fail: on a non-finite matrix, and (in numpy releases that
\* reject empty arrays) on an empty one
MayRaise(B, prior, n_a, m_a, f) ==
    /\ B.d = prior.shape[2]
    /\ \/ Len(B.rows) = 0
       \/ ~AllFinite(Work(B, prior, n_a, m_a, f).R)

(***************************************************************************)
(* Specification of a model fitted by pca and updated by ipca.  data is    *)
(* every sample given so far; exact says that the model was fitted with    *)
(* centring and the update passed f = 1.0, the number of samples seen as   *)
(* n_a and the model's mean as m_a, with the small tolerance.  One update  *)
(* is applied to a fitted model.                                           *)
(***************************************************************************)
\* a tolerance below every eigenvalue the model's data produce, as 1e-10 is
SmallEps == Rat(1, 1000)

IpcaVals == -1..1

\* the first data matrix: one-dimensional samples
FirstData ==
    UNION {{[d |-> 1, rows |-> [i \in 1..n |-> IntRow(<<x[i]>>)]] :
               x \in [1..n -> IpcaVals]} : n \in 1..MaxFirst}

\* a new batch: one-dimensional samples (possibly none), or a sample of
\* another dimension
Batches ==
    UNION {{[d |-> 1, rows |-> [i \in 1..n |-> IntRow(<<x[i]>>)]] :
               x \in [1..n -> 0..1]} : n \in 0..MaxBatch}
    \cup {[d |-> 2, rows |-> <<IntRow(<<0, 1>>)>>]}

Forgetting == {Zero, Rat(1, 2), One}

NoIpca == [status |-> "none", U |-> <<>>, shape |-> <<0, 0>>, l |-> <<>>, m |-> <<>>,
           active |-> FALSE, W |-> EmptyArr, keep |-> <<>>]

NoIpcaArgs == [B |-> EmptyArr, prior |-> NoPca, n_a |-> 0, m_a |-> None, f |-> Zero,
               eps |-> Zero, lib |-> "return"]

ModelOf(r) == [status |-> r.status, U |-> r.U, shape |-> r.shape, l |-> r.l, m |-> r.m]

Fit(centre, lib) ==
    /\ Held(data)
    /\ model.status = "none"
    /\ lib = "raise" => Len(data.rows) = 1
    /\ model' = Pca(data, centre, FALSE, SmallEps, lib).ret
    /\ exact' = centre
    /\ UNCHANGED <<data, ipcaArgs, ipcaRet, eigVars, pcaVars>>

\* the call returns r; the caller keeps the updated model, or the old one
\* when the call raised
IpcaReturns(B, r) ==
    /\ ipcaRet' = r
    /\ model' = IF r.status = "ok" THEN ModelOf(r) ELSE model
    /\ data' = IF r.status = "ok"
               THEN [d |-> data.d, rows |-> data.rows \o B.rows]
               ELSE data

Update(B, n_a, m_a, f, eps, lib) ==
    /\ model.status = "ok"
    /\ ipcaRet.status = "none"
    /\ lib = "raise" => MayRaise(B, model, n_a, m_a, f)
    /\ IpcaReturns(B, Ipca(B, model, n_a, m_a, f, eps, lib))
    /\ exact' = (/\ exact
                 /\ Len(B.rows) > 0
                 /\ f = One
                 /\ n_a = Len(data.rows)
                 /\ m_a = Some(model.m)
                 /\ eps = SmallEps)
    /\ ipcaArgs' = [B |-> B, prior |-> model, n_a |-> n_a, m_a |-> m_a, f |-> f,
                    eps |-> eps, lib |-> lib]
    /\ UNCHANGED <<eigVars, pcaVars>>

NextIpca ==
    \/ \E centre \in BOOLEAN, lib \in {"return", "raise"} : Fit(centre, lib)
    \/ \E B \in Batches, n_a \in {1, Len(data.rows)}, m_a \in {None, Some(model.m)},
          f \in Forgetting, eps \in {SmallEps, One}, lib \in {"return", "raise"} :
           Update(B, n_a, m_a, f, eps, lib)

(***************************************************************************)
(* The specifications: of each function alone, and of pca and ipca         *)
(* together.                                                               *)
(***************************************************************************)
IdleEig == C = <<>> /\ eigArgs = NoEigArgs /\ eigRet = NoEig

IdlePca ==
    /\ X = NoArr
    /\ pcaArgs = NoPcaArgs /\ pcaRet = NoPca

IdleIpca ==
    /\ data = NoArr /\ model = NoPca /\ exact = FALSE
    /\ ipcaArgs = NoIpcaArgs /\ ipcaRet = NoIpca

InitEig ==
    /\ C \in SymMatrices /\ eigArgs = NoEigArgs /\ eigRet = NoEig
    /\ IdlePca /\ IdleIpca

InitPca ==
    /\ X \in DataMatrices
    /\ pcaArgs = NoPcaArgs /\ pcaRet = NoPca
    /\ IdleEig /\ IdleIpca

InitIpca ==
    /\ data \in FirstData /\ model = NoPca /\ exact = FALSE
    /\ ipcaArgs = NoIpcaArgs /\ ipcaRet = NoIpca
    /\ IdleEig /\ IdlePca

SpecEig == InitEig /\ [][NextEig]_vars

SpecPca == InitPca /\ [][NextPca]_vars

SpecIpca == InitIpca /\ [][NextIpca]_vars

SpecModel == (InitPca \/ InitIpca) /\ [][NextPca \/ NextIpca]_vars

(***************************************************************************)
(* Properties of eigenvalue_decomposition (under SpecEig).                 *)
(***************************************************************************)
\* x >= y for numbers that are not nan
RGe(x, y) == x # NaN /\ y # NaN /\ ~RGt(y, x)

MatVec(a, v) == [i \in 1..Len(a) |-> Dot(a[i], v)]

\* v is an eigenvector of the matrix a / den for the eigenvalue x
IsEigenpair(a, den, v, x) ==
    /\ Len(v) = Len(a)
    /\ \E k \in 1..Len(v) : v[k] # 0
    /\ \A k \in 1..Len(v) : MatVec(a, v)[k] * x[2] = den * x[1] * v[k]

Independent(u, v) == \E j, k \in 1..Len(u) : u[j] * v[k] # u[k] * v[j]

\* the determinant of c - x I for a matrix c of order 1, 2 or 3
CharPoly(c, x) ==
    LET a == [i \in 1..Len(c) |-> [j \in 1..Len(c) |->
                 IF i = j THEN c[i][j] - x ELSE c[i][j]]]
    IN  IF Len(c) = 1 THEN a[1][1]
        ELSE IF Len(c) = 2 THEN a[1][1] * a[2][2] - a[1][2] * a[2][1]
        ELSE a[1][1] * (a[2][2] * a[3][3] - a[2][3] * a[3][2])
             - a[1][2] * (a[2][1] * a[3][3] - a[2][3] * a[3][1])
             + a[1][3] * (a[2][1] * a[3][2] - a[2][2] * a[3][1])

\* every eigenvalue of c lies within the largest absolute row sum
RowBound(c) ==
    LET sums == {SumInts([j \in 1..Len(c) |-> Abs(c[i][j])]) : i \in 1..Len(c)}
    IN  CHOOSE b \in sums : \A t \in sums : t <= b

\* the largest |eigenvalue| of c (the matrices drawn have integer spectra)
SpectralRadius(c) ==
    LET roots == {x \in -RowBound(c)..RowBound(c) : CharPoly(c, x) = 0}
    IN  CHOOSE r \in {Abs(x) : x \in roots} : \A x \in roots : Abs(x) <= r

\* C1: the eigenvalues returned for C and eps are non-increasing, each is
\* strictly positive and strictly greater than max(|eigenvalues of C|) * eps,
\* and the returned eigenvectors are as many, column i an eigenvector of C
\* for the returned eigenvalue i.
C1_SortedPositiveAboveLimit ==
    eigRet.status = "ok" =>
        /\ Len(eigRet.vecs) = Len(eigRet.vals)
        /\ \A i \in 1..Len(eigRet.vals) - 1 : RGe(eigRet.vals[i], eigRet.vals[i + 1])
        /\ \A i \in 1..Len(eigRet.vals) :
              /\ RGt(eigRet.vals[i], Zero)
              /\ RGt(eigRet.vals[i], RMul(Rat(SpectralRadius(C), 1), eigArgs.eps))
              /\ IsEigenpair(C, 1, eigRet.vecs[i], eigRet.vals[i])

\* a matrix of order 3 of which two distinct eigenvalues were returned and
\* one was filtered out, under a positive tolerance
C1_Witness ==
    /\ eigRet.status = "ok" /\ Len(C) = 3 /\ Len(eigRet.vals) = 2
    /\ eigRet.vals[1] # eigRet.vals[2]
    /\ RGt(eigArgs.eps, Zero)

\* C2 as stated: adjacent returned eigenvalues are strictly descending,
\* l[i] > l[i+1], repeated eigenvalues of C included.
C2_StrictlyDescending ==
    eigRet.status = "ok" =>
        \A i \in 1..Len(eigRet.vals) - 1 : RGt(eigRet.vals[i], eigRet.vals[i + 1])

\* C2 amended: adjacent returned eigenvalues satisfy l[i] >= l[i+1], and
\* l[i] = l[i+1] only for a repeated eigenvalue of C, returned once for each
\* of two independent eigenvectors.
C2_DescendingWithTies ==
    eigRet.status = "ok" =>
        \A i \in 1..Len(eigRet.vals) - 1 :
            \/ RGt(eigRet.vals[i], eigRet.vals[i + 1])
            \/ /\ eigRet.vals[i] = eigRet.vals[i + 1]
               /\ IsEigenpair(C, 1, eigRet.vecs[i], eigRet.vals[i])
               /\ IsEigenpair(C, 1, eigRet.vecs[i + 1], eigRet.vals[i])
               /\ Independent(eigRet.vecs[i], eigRet.vecs[i + 1])

\* a repeated eigenvalue was returned twice, next to a smaller one
C2_Witness ==
    /\ eigRet.status = "ok" /\ Len(eigRet.vals) = 3
    /\ eigRet.vals[1] = eigRet.vals[2]
    /\ RGt(eigRet.vals[2], eigRet.vals[3])

(***************************************************************************)
(* Properties of pca (under SpecPca).  pcaArgs.X0 is the array the last    *)
(* call was given, as it was before the call.                              *)
(***************************************************************************)
Called == pcaRet.status # "none"

NSamples == Len(pcaArgs.X0.rows)

NDims == pcaArgs.X0.d

Min(a, b) == IF a < b THEN a ELSE b

\* m is the mean of the columns of A (centre), or the zero vector
IsMeanOf(m, A, centre) ==
    /\ Len(m) = A.d
    /\ \A k \in 1..A.d :
          IF centre
          THEN RMul(m[k], Rat(Len(A.rows), 1)) = Rat(ColSum(IntRows(A), A.d)[k], 1)
          ELSE m[k] = Zero

\* no eigenvalue of M passes the two filters under the tolerance eps
NoSurvivor(M, eps) ==
    \A i \in 1..Len(M.a) :
        ~(RGt(Eigh(M).w[i], Zero) /\ RGt(Eigh(M).w[i], Limit(Eigh(M).w, eps)))

\* the matrix that the last call decomposed
Decomposed == Symmetrise(Covariance(pcaArgs.X0, pcaArgs.centre))

\* C4 as stated: pca given an empty matrix or one of fewer than 2 rows
\* signals an error and returns no (U, l, m).
C4_MalformedInputRaises ==
    (Called /\ NSamples < 2) => pcaRet.status = "error"

\* C6: when no eigenvalue of the covariance or Gram matrix (of n >= 2
\* samples) survives the filter, eigenvalue_decomposition returns empty
\* sequences without failing and pca, in either regime, returns the model of
\* no component: U of 0 rows and d columns, empty l, and the mean m.
C6_ZeroComponentModel ==
    (Called /\ NSamples >= 2 /\ NoSurvivor(Decomposed, pcaArgs.eps)) =>
        /\ EigenvalueDecomposition(Decomposed, pcaArgs.eps, pcaArgs.lib)
              = EigOk(Len(Decomposed.a), [w |-> <<>>, v |-> <<>>])
        /\ pcaRet.status = "ok"
        /\ pcaRet.U = <<>> /\ pcaRet.shape = <<0, NDims>> /\ pcaRet.l = <<>>
        /\ IsMeanOf(pcaRet.m, pcaArgs.X0, pcaArgs.centre)

\* an in-place call in the regime d >= n on data that do vary, all of whose
\* eigenvalues the tolerance filtered out
C6_Witness ==
    /\ pcaRet.status = "ok" /\ pcaRet.shape = <<0, NDims>>
    /\ NSamples >= 2 /\ NDims >= NSamples
    /\ pcaArgs.inplace /\ pcaArgs.centre
    /\ \E i \in 1..Len(Decomposed.a) : RGt(Eigh(Decomposed).w[i], Zero)

\* C7: a call with inplace=False and a call with inplace=True on the same
\* matrix with the same centre and eps return the same (U, l, m); the call
\* with inplace=False leaves the caller's matrix as it was, and the call with
\* inplace=True leaves it as X - m, its first rows overwritten by U when
\* d >= n.
C7_InplaceEquivalence ==
    [][/\ (/\ Called
           /\ pcaArgs'.X0 = pcaArgs.X0
           /\ pcaArgs'.centre = pcaArgs.centre
           /\ pcaArgs'.eps = pcaArgs.eps
           /\ pcaArgs'.lib = pcaArgs.lib
           /\ pcaArgs'.inplace # pcaArgs.inplace) => pcaRet' = pcaRet
       /\ ~pcaArgs'.inplace => X' = X
       /\ (pcaArgs'.inplace /\ pcaRet'.status = "ok") =>
             /\ X'.d = X.d /\ Len(X'.rows) = Len(X.rows)
             /\ \A i \in 1..Len(X.rows) :
                   X'.rows[i] = IF ~Primal(X) /\ i <= Len(pcaRet'.l)
                                THEN pcaRet'.U[i]
                                ELSE Centred(X, pcaArgs'.centre).rows[i]]_vars

\* an in-place call in the regime d >= n that returned components and left
\* them in the caller's matrix
C7_Witness ==
    /\ pcaRet.status = "ok" /\ pcaArgs.inplace
    /\ NDims >= NSamples /\ Len(pcaRet.l) >= 1
    /\ X # pcaArgs.X0
    /\ X.rows[1] = pcaRet.U[1]

\* C10 as stated: whatever the centre flag, the number of components is at
\* most min(n_samples - 1, n_dims).
C10_ComponentsBound ==
    pcaRet.status = "ok" => Len(pcaRet.l) <= Min(NSamples - 1, NDims)

\* C10 amended: the number of components is at most min(n_samples - 1,
\* n_dims) when centre is set, and at most min(n_samples, n_dims) when it is
\* not.
C10_ComponentsBoundByCentre ==
    pcaRet.status = "ok" =>
        /\ Len(pcaRet.U) = Len(pcaRet.l)
        /\ Len(pcaRet.l) <= Min(IF pcaArgs.centre THEN NSamples - 1 ELSE NSamples,
                                NDims)

\* a centred call that returned n_samples - 1 components
C10_Witness ==
    /\ pcaRet.status = "ok" /\ pcaArgs.centre
    /\ NSamples >= 2 /\ Len(pcaRet.l) = NSamples - 1

(***************************************************************************)
(* Properties of ipca (under SpecIpca).  ipcaArgs are the arguments of the *)
(* update, ipcaArgs.prior the model (U_a, l_a, m of the fit) it was given. *)
(***************************************************************************)
\* the rows of U and V are the same vectors up to their signs
SameUpToSign(U, V) ==
    /\ Len(U) = Len(V)
    /\ \A i \in 1..Len(U) :
          /\ U[i].s2 = V[i].s2
          /\ \/ U[i].dir = V[i].dir
             \/ U[i].dir = [k \in 1..Len(V[i].dir) |-> -V[i].dir[k]]

\* pca of all the samples given so far
Batch == Pca(data, TRUE, FALSE, SmallEps, "return").ret

\* C3 as stated: the model returned by ipca with f = 1.0, given pca(X1), the
\* number of rows of X1 as n_a, and a new batch X2, matches pca of X1 and X2
\* concatenated: same mean, same eigenvalues, same eigenvectors up to sign.
C3_MatchesBatch ==
    (exact /\ ipcaRet.status = "ok") =>
        /\ ipcaRet.m = Batch.m
        /\ ipcaRet.l = Batch.l
        /\ SameUpToSign(ipcaRet.U, Batch.U)

\* C5 as stated: ipca signals an error and returns no (U, l, m) whenever B's
\* column count differs from U_a's, n_a < 2, or B is empty.
C5_InvalidShapeRaises ==
    (/\ ipcaRet.status # "none"
     /\ \/ ipcaArgs.B.d # ipcaArgs.prior.shape[2]
        \/ ipcaArgs.n_a < 2
        \/ Len(ipcaArgs.B.rows) = 0) => ipcaRet.status = "error"

\* entry k of the row is the number x * sqrt(c2)
EntryIs(row, k, x, c2) ==
    /\ RMul(Rat(row.dir[k] * row.dir[k], 1), row.s2) = RMul(RMul(x, x), c2)
    /\ \/ RMul(RMul(x, x), c2) = Zero
       \/ Sgn(row.dir[k]) = Sgn(x[1])

\* the mean of column k of B
ColMean(B, k) == Rat(ColSum(IntRows(B), B.d)[k], Len(B.rows))

\* C8: ipca centres exactly when m_a is given and is not all zeros.  Then,
\* with n_a' = n_a * f and n = n_a' + n_b, the mean returned is
\* (n_a'/n) m_a + (n_b/n) m_b and the working matrix is B - m_b followed by
\* the one row sqrt(n_a' n_b / n) (m_b - m_a), n_b + 1 rows.  Otherwise the
\* mean returned is the zero vector of length d and the working matrix is B.
C8_Centring ==
    ipcaRet.status = "ok" =>
        LET B == ipcaArgs.B
            m_a == ipcaArgs.m_a
            n_b == Len(B.rows)
            na == RMul(Rat(ipcaArgs.n_a, 1), ipcaArgs.f)
            n == RAdd(na, Rat(n_b, 1))
            given == m_a.present /\ \E k \in 1..Len(m_a.v) : m_a.v[k] # Zero
        IN  /\ ipcaRet.active <=> given
            /\ Len(ipcaRet.m) = B.d
            /\ given =>
                  /\ Len(ipcaRet.W.rows) = n_b + 1
                  /\ n_b >= 1 => \A k \in 1..B.d :
                        /\ RMul(n, ipcaRet.m[k])
                              = RAdd(RMul(na, m_a.v[k]), RMul(Rat(n_b, 1), ColMean(B, k)))
                        /\ \A i \in 1..n_b :
                              EntryIs(ipcaRet.W.rows[i], k,
                                      RSub(Rat(B.rows[i].dir[k], 1), ColMean(B, k)), One)
                        /\ EntryIs(ipcaRet.W.rows[n_b + 1], k,
                                   RSub(ColMean(B, k), m_a.v[k]),
                                   RDiv(RMul(na, Rat(n_b, 1)), n))
            /\ ~given =>
                  /\ \A k \in 1..B.d : ipcaRet.m[k] = Zero
                  /\ ipcaRet.W = B

\* a centred update with a forgetting factor below one, on a batch of two
\* samples whose mean is not the model's
C8_Witness ==
    /\ ipcaRet.status = "ok" /\ ipcaRet.active
    /\ ipcaArgs.f = Rat(1, 2)
    /\ Len(ipcaArgs.B.rows) = 2 /\ Len(ipcaRet.W.rows) = 3
    /\ ipcaRet.m # ipcaArgs.m_a.v
    /\ ipcaRet.W.rows[3].s2 # Zero /\ ipcaRet.W.rows[3].dir # <<0>>

(***************************************************************************)
(* Properties of pca and ipca together (under SpecModel).                  *)
(***************************************************************************)
\* X.T X for the integer matrix Y of rows of length d
Scatter(Y, d) ==
    [j \in 1..d |-> [k \in 1..d |-> SumInts([i \in 1..Len(Y) |-> Y[i][j] * Y[i][k]])]]

IsUnit(u) == RMul(Rat(Dot(u.dir, u.dir), 1), u.s2) = One

CountTrue(mask) == Cardinality({i \in 1..Len(mask) : mask[i]})

====
